---- MODULE Spec2Model ----
(***************************************************************************)
(* Crowdfunding canister (Azle / Internet Computer).                       *)
(*                                                                         *)
(* The canister keeps one stable map, crowdfundingProjects, from project   *)
(* id to project record.  Every public method is one message: it runs to   *)
(* completion against the map at one value of ic.time().  Each handler is  *)
(* an operator from (map, time, arguments) to the pair (map afterwards,    *)
(* reply); each action applies one handler to the current state and keeps  *)
(* the map the handler leaves.                                             *)
(***************************************************************************)
EXTENDS Integers, Sequences, FiniteSets, TLC

VARIABLES
    crowdfundingProjects,   \* StableBTreeMap<Principal, Project>: a function on the stored keys
    time,                   \* ic.time(): the same throughout a message, never goes back
    pending                 \* the createProject call inside its identifier loop, if any:
                            \* <<>> or <<[payload, id]>>; used when the loop is followed
                            \* draw by draw (SpecAlloc), empty throughout Spec

vars == <<crowdfundingProjects, time, pending>>

-----------------------------------------------------------------------------
(* Bounds of the model and the inputs callers send *)

MaxTime == 2            \* the clock runs over 0..MaxTime
MaxContributions == 2   \* contributions the canister accepts, all projects together

\* the identifier space generateId draws from (29 random bytes in the code)
Principals == {1, 2}

PayloadA == [title |-> "T1", description |-> "D1", goalAmount |-> 5,
             duration |-> 1, creator |-> "alice"]
PayloadB == [title |-> "T2", description |-> "D2", goalAmount |-> 7,
             duration |-> 2, creator |-> "bob"]

ValidPayloads == {PayloadA, PayloadB}

\* one required attribute falsy: the empty string, or 0n
InvalidPayloads == {[PayloadA EXCEPT !.title = ""],
                    [PayloadA EXCEPT !.description = ""],
                    [PayloadA EXCEPT !.goalAmount = 0],
                    [PayloadA EXCEPT !.duration = 0],
                    [PayloadA EXCEPT !.creator = ""]}

ProjectPayload == ValidPayloads \cup InvalidPayloads

ValidContributors == {[contributor |-> "bob", amount |-> 1],
                      [contributor |-> "carol", amount |-> 2]}

InvalidContributors == {[contributor |-> "", amount |-> 1],
                        [contributor |-> "bob", amount |-> 0]}

Contributor == ValidContributors \cup InvalidContributors

-----------------------------------------------------------------------------
(* enum ProjectStatus and the membership test  status in ProjectStatus *)

Funding == "Funding"
Successful == "Successful"
Expired == "Expired"

\* own enumerable keys of the object a string enum compiles to
ProjectStatus == {Funding, Successful, Expired}

\* properties every plain object inherits from Object.prototype; the
\* JavaScript  in  operator looks through the prototype chain
ObjectPrototypeKeys == {"constructor", "toString", "toLocaleString", "valueOf",
                        "hasOwnProperty", "isPrototypeOf", "propertyIsEnumerable",
                        "__proto__", "__defineGetter__", "__defineSetter__",
                        "__lookupGetter__", "__lookupSetter__"}

InProjectStatus(status) == status \in ProjectStatus \cup ObjectPrototypeKeys

\* status strings a caller may send
StatusInputs == {"", Funding, Successful, Expired, "Cancelled", "toString"}

-----------------------------------------------------------------------------
(* Result and the map primitives *)

Ok(v) == [tag |-> "Ok", val |-> v]
Err(e) == [tag |-> "Err", val |-> e]

None == [None |-> TRUE]
Some(v) == [Some |-> v]

Get(map, key) == IF key \in DOMAIN map THEN Some(map[key]) ELSE None

\* slip: the write replaces the map's content instead of one entry
Insert_Replace(map, key, value) == [k \in {key} |-> value]

Insert(map, key, value) ==
    [k \in DOMAIN map \cup {key} |-> IF k = key THEN value ELSE map[k]]

RECURSIVE KeysAscending(_)
KeysAscending(S) ==
    IF S = {} THEN <<>>
    ELSE LET least == CHOOSE k \in S : \A j \in S : k <= j
         IN <<least>> \o KeysAscending(S \ {least})

\* values() walks the B-tree in key order
Values(map) ==
    LET keys == KeysAscending(DOMAIN map)
    IN [i \in 1..Len(keys) |-> map[keys[i]]]

\* slip: the filter keeps the Expired records whatever status is asked for
RECURSIVE Filter_ExpiredOnly(_, _)
Filter_ExpiredOnly(seq, status) ==
    IF seq = <<>> THEN <<>>
    ELSE (IF Head(seq).status = Expired THEN <<Head(seq)>> ELSE <<>>)
         \o Filter_ExpiredOnly(Tail(seq), status)

RECURSIVE Filter(_, _)
Filter(seq, status) ==
    IF seq = <<>> THEN <<>>
    ELSE (IF Head(seq).status = status THEN <<Head(seq)>> ELSE <<>>)
         \o Filter(Tail(seq), status)

\* one draw of 29 random bytes can be any identifier
generateId == Principals

PayloadMissing(payload) ==
    \/ payload.duration = 0
    \/ payload.title = ""
    \/ payload.description = ""
    \/ payload.creator = ""
    \/ payload.goalAmount = 0

-----------------------------------------------------------------------------
(* The handlers: (map, ic.time(), arguments) -> [store, result] *)

Step(map, r) == [store |-> map, result |-> r]

\* slip: the first candidate is taken without looking it up
FreshIds_NoRetry(map) == generateId

\* identifiers the allocation loop can end with: it draws again while the
\* candidate is a key of the map
FreshIds(map) == {id \in generateId : Get(map, id) = None}

\* slip: the deadline is the duration alone, not counted from the start time
NewProject_DeadlineIsDuration(now, payload, id) ==
    [id |-> id,
     raisedAmount |-> 0,
     startTime |-> now,
     deadline |-> payload.duration,
     contributors |-> <<>>,
     status |-> Funding,
     title |-> payload.title,
     description |-> payload.description,
     goalAmount |-> payload.goalAmount,
     duration |-> payload.duration,
     creator |-> payload.creator]

\* the record createProject builds: the literal's fields, then the payload's
NewProject(now, payload, id) ==
    [id |-> id,
     raisedAmount |-> 0,
     startTime |-> now,
     deadline |-> now + payload.duration,
     contributors |-> <<>>,
     status |-> Funding,
     title |-> payload.title,
     description |-> payload.description,
     goalAmount |-> payload.goalAmount,
     duration |-> payload.duration,
     creator |-> payload.creator]

\* id is the identifier the allocation loop ended with
createProject(map, now, payload, id) ==
    IF PayloadMissing(payload)
    THEN Step(map, Err("InvalidPayload"))
    ELSE LET project == NewProject(now, payload, id)
         IN Step(Insert(map, project.id, project), Ok(project))

ContributionMissing(payload) ==
    \/ payload.contributor = ""
    \/ payload.amount = 0

\* slip: only Expired is treated as closed
IsTerminal_ExpiredOnly(project) == project.status = Expired

IsTerminal(project) ==
    project.status = Expired \/ project.status = Successful

\* slip: the deadline instant itself still counts as open
PastDeadline_Strict(now, project) == now > project.deadline

PastDeadline(now, project) == now >= project.deadline

\* slip: the contributor is put in front of the list (unshift for push)
Funded_Unshift(project, payload) ==
    [project EXCEPT !.raisedAmount = project.raisedAmount + payload.amount,
                    !.contributors = <<payload.contributor>> \o project.contributors]

\* slip: the expiry assignment also runs on the path that accepts the money
Funded_MarksExpired(project, payload) ==
    [project EXCEPT !.raisedAmount = project.raisedAmount + payload.amount,
                    !.contributors = Append(project.contributors, payload.contributor),
                    !.status = Expired]

\* nat64 values are bigints in the handler: the sum is exact
\* slip: a contributor already listed is not listed again
Funded_ListedOnce(project, payload) ==
    [project EXCEPT !.raisedAmount = project.raisedAmount + payload.amount,
                    !.contributors =
                        IF \E i \in 1..Len(project.contributors) :
                               project.contributors[i] = payload.contributor
                        THEN project.contributors
                        ELSE Append(project.contributors, payload.contributor)]

Funded(project, payload) ==
    [project EXCEPT !.raisedAmount = project.raisedAmount + payload.amount,
                    !.contributors = Append(project.contributors, payload.contributor)]

contributeToProject(map, now, projectId, payload) ==
    IF ContributionMissing(payload)
    THEN Step(map, Err("InvalidPayload"))
    ELSE LET projectOpt == Get(map, projectId)
         IN IF projectOpt = None
            THEN Step(map, Err("NotFound"))
            ELSE LET project == projectOpt.Some
                 IN IF IsTerminal(project)
                    THEN Step(map, Err("ProjectExpired"))
                    ELSE IF PastDeadline(now, project)
                    THEN LET expired == [project EXCEPT !.status = Expired]
                         IN Step(Insert(map, expired.id, expired), Err("ProjectExpired"))
                    ELSE LET funded == Funded(project, payload)
                         IN Step(Insert(map, funded.id, funded), Ok(funded))

getProjects(map, status) ==
    IF status # ""
    THEN Step(map, Ok(Filter(Values(map), status)))
    ELSE Step(map, Ok(Values(map)))

getProject(map, projectId) ==
    LET projectOpt == Get(map, projectId)
    IN IF projectOpt = None
       THEN Step(map, Err("NotFound"))
       ELSE Step(map, Ok(projectOpt.Some))

getContributors(map, projectId) ==
    LET projectOpt == Get(map, projectId)
    IN IF projectOpt = None
       THEN Step(map, Err("NotFound"))
       ELSE Step(map, Ok(projectOpt.Some.contributors))

\* slip: a closed project refuses a new status
SetStatus_ClosedStays(map, project, status) ==
    IF project.status = Expired \/ project.status = Successful
    THEN Step(map, Err("InvalidStatus"))
    ELSE LET updated == [project EXCEPT !.status = status]
         IN Step(Insert(map, updated.id, updated), Ok(updated))

\* the recognised branch of updateStatus: overwrite and write back
SetStatus(map, project, status) ==
    LET updated == [project EXCEPT !.status = status]
    IN Step(Insert(map, updated.id, updated), Ok(updated))

updateStatus(map, projectId, status) ==
    IF status = ""
    THEN Step(map, Err("InvalidPayload"))
    ELSE LET projectOpt == Get(map, projectId)
         IN IF projectOpt = None
            THEN Step(map, Err("NotFound"))
            ELSE LET project == projectOpt.Some
                 IN IF InProjectStatus(status)
                    THEN SetStatus(map, project, status)
                    ELSE Step(map, Err("InvalidStatus"))

\* slip: a deadline equal to the current time is refused too
InvalidDuration_Inclusive(now, project, payload) ==
    project.startTime + payload.duration <= now

InvalidDuration(now, project, payload) ==
    project.startTime + payload.duration < now

\* slip: the update starts the campaign again as Funding
UpdatedProject_Reopens(project, payload) ==
    [id |-> project.id,
     raisedAmount |-> project.raisedAmount,
     startTime |-> project.startTime,
     contributors |-> project.contributors,
     status |-> Funding,
     deadline |-> project.startTime + payload.duration,
     title |-> payload.title,
     description |-> payload.description,
     goalAmount |-> payload.goalAmount,
     duration |-> payload.duration,
     creator |-> payload.creator]

\* slip: the deadline is the duration alone, not counted from the start time
UpdatedProject_DeadlineIsDuration(project, payload) ==
    [id |-> project.id,
     raisedAmount |-> project.raisedAmount,
     startTime |-> project.startTime,
     contributors |-> project.contributors,
     status |-> project.status,
     deadline |-> payload.duration,
     title |-> payload.title,
     description |-> payload.description,
     goalAmount |-> payload.goalAmount,
     duration |-> payload.duration,
     creator |-> payload.creator]

\* slip: the stored deadline is kept, only the descriptive fields are replaced
UpdatedProject_KeepsDeadline(project, payload) ==
    [id |-> project.id,
     raisedAmount |-> project.raisedAmount,
     startTime |-> project.startTime,
     contributors |-> project.contributors,
     status |-> project.status,
     deadline |-> project.deadline,
     title |-> payload.title,
     description |-> payload.description,
     goalAmount |-> payload.goalAmount,
     duration |-> payload.duration,
     creator |-> payload.creator]

\* the record updateProject builds: the literal's fields, then the payload's
UpdatedProject(project, payload) ==
    [id |-> project.id,
     raisedAmount |-> project.raisedAmount,
     startTime |-> project.startTime,
     contributors |-> project.contributors,
     status |-> project.status,
     deadline |-> project.startTime + payload.duration,
     title |-> payload.title,
     description |-> payload.description,
     goalAmount |-> payload.goalAmount,
     duration |-> payload.duration,
     creator |-> payload.creator]

updateProject(map, now, projectId, payload) ==
    IF PayloadMissing(payload)
    THEN Step(map, Err("InvalidPayload"))
    ELSE LET projectOpt == Get(map, projectId)
         IN IF projectOpt = None
            THEN Step(map, Err("NotFound"))
            ELSE LET project == projectOpt.Some
                 IN IF InvalidDuration(now, project, payload)
                    THEN Step(map, Err("InvalidPayload"))
                    ELSE LET updatedProject == UpdatedProject(project, payload)
                         IN Step(Insert(map, updatedProject.id, updatedProject),
                                 Ok(updatedProject))

\* slip: only a project still Funding can be cancelled
cancelProject_FundingOnly(map, projectId) ==
    LET projectOpt == Get(map, projectId)
    IN IF projectOpt = None
       THEN Step(map, Err("NotFound"))
       ELSE IF projectOpt.Some.status # Funding
       THEN Step(map, Err("InvalidStatus"))
       ELSE LET project == [projectOpt.Some EXCEPT !.status = Expired]
            IN Step(Insert(map, project.id, project), Ok(project))

cancelProject(map, projectId) ==
    LET projectOpt == Get(map, projectId)
    IN IF projectOpt = None
       THEN Step(map, Err("NotFound"))
       ELSE LET project == [projectOpt.Some EXCEPT !.status = Expired]
            IN Step(Insert(map, project.id, project), Ok(project))

-----------------------------------------------------------------------------
(* The canister as a state machine: one action per public method *)

Init ==
    /\ crowdfundingProjects = <<>>
    /\ time = 0
    /\ pending = <<>>

\* Each action keeps the map its handler leaves; the reply goes to the caller.
\* ic.time() does not move while a message runs, and no message starts while
\* another is running (pending = <<>>).

CreateProject(payload) ==
    /\ pending = <<>>
    /\ IF PayloadMissing(payload)   \* refused before any identifier is drawn
       THEN crowdfundingProjects' =
                createProject(crowdfundingProjects, time, payload, 1).store
       ELSE \E id \in FreshIds(crowdfundingProjects) :
                crowdfundingProjects' =
                    createProject(crowdfundingProjects, time, payload, id).store
    /\ UNCHANGED <<time, pending>>

RECURSIVE Contributions(_, _)
Contributions(map, keys) ==
    IF keys = {} THEN 0
    ELSE LET k == CHOOSE x \in keys : TRUE
         IN Len(map[k].contributors) + Contributions(map, keys \ {k})

ContributeToProject(projectId, payload) ==
    LET r == contributeToProject(crowdfundingProjects, time, projectId, payload)
    IN /\ pending = <<>>
       /\ r.result.tag = "Ok" =>
              Contributions(crowdfundingProjects, DOMAIN crowdfundingProjects)
                  < MaxContributions
       /\ crowdfundingProjects' = r.store
       /\ UNCHANGED <<time, pending>>

GetProjects(status) ==
    /\ pending = <<>>
    /\ crowdfundingProjects' = getProjects(crowdfundingProjects, status).store
    /\ UNCHANGED <<time, pending>>

GetProject(projectId) ==
    /\ pending = <<>>
    /\ crowdfundingProjects' = getProject(crowdfundingProjects, projectId).store
    /\ UNCHANGED <<time, pending>>

GetContributors(projectId) ==
    /\ pending = <<>>
    /\ crowdfundingProjects' = getContributors(crowdfundingProjects, projectId).store
    /\ UNCHANGED <<time, pending>>

UpdateStatus(projectId, status) ==
    /\ pending = <<>>
    /\ crowdfundingProjects' = updateStatus(crowdfundingProjects, projectId, status).store
    /\ UNCHANGED <<time, pending>>

UpdateProject(projectId, payload) ==
    /\ pending = <<>>
    /\ crowdfundingProjects' =
           updateProject(crowdfundingProjects, time, projectId, payload).store
    /\ UNCHANGED <<time, pending>>

CancelProject(projectId) ==
    /\ pending = <<>>
    /\ crowdfundingProjects' = cancelProject(crowdfundingProjects, projectId).store
    /\ UNCHANGED <<time, pending>>

\* time passes between messages
Tick ==
    /\ pending = <<>>
    /\ time < MaxTime
    /\ time' = time + 1
    /\ UNCHANGED <<crowdfundingProjects, pending>>

Next ==
    \/ \E payload \in ProjectPayload : CreateProject(payload)
    \/ \E projectId \in Principals, payload \in Contributor :
            ContributeToProject(projectId, payload)
    \/ \E status \in StatusInputs : GetProjects(status)
    \/ \E projectId \in Principals : GetProject(projectId)
    \/ \E projectId \in Principals : GetContributors(projectId)
    \/ \E projectId \in Principals, status \in StatusInputs :
            UpdateStatus(projectId, status)
    \/ \E projectId \in Principals, payload \in ProjectPayload :
            UpdateProject(projectId, payload)
    \/ \E projectId \in Principals : CancelProject(projectId)
    \/ Tick

Spec == Init /\ [][Next]_vars

-----------------------------------------------------------------------------
(* createProject's identifier loop, draw by draw.  The message runs alone:
   while it is in the loop no other message runs and ic.time() stands still. *)

\* slip: the lookup is never true, so the first candidate is always taken
Taken_Never(map, id) == FALSE

\* the loop condition: the candidate is a key of the map
Taken(map, id) == Get(map, id) # None

\* let id = generateId(), after the payload check has passed
BeginCreate(payload) ==
    /\ pending = <<>>
    /\ ~PayloadMissing(payload)
    /\ \E id \in generateId : pending' = <<[payload |-> payload, id |-> id]>>
    /\ UNCHANGED <<crowdfundingProjects, time>>

\* one turn of the loop: the candidate is taken, generateId() gives id
Redraw(id) ==
    /\ pending # <<>>
    /\ Taken(crowdfundingProjects, pending[1].id)
    /\ id \in generateId
    /\ pending' = <<[pending[1] EXCEPT !.id = id]>>
    /\ UNCHANGED <<crowdfundingProjects, time>>

\* the loop is left: the record is built, inserted and returned
FinishCreate ==
    /\ pending # <<>>
    /\ ~Taken(crowdfundingProjects, pending[1].id)
    /\ crowdfundingProjects' =
           createProject(crowdfundingProjects, time, pending[1].payload,
                         pending[1].id).store
    /\ pending' = <<>>
    /\ UNCHANGED time

NextAlloc ==
    \/ \E payload \in ProjectPayload : BeginCreate(payload)
    \/ \E id \in Principals : Redraw(id)
    \/ FinishCreate
    \/ \E payload \in InvalidPayloads : CreateProject(payload)
    \/ \E projectId \in Principals, payload \in Contributor :
            ContributeToProject(projectId, payload)
    \/ \E status \in StatusInputs : GetProjects(status)
    \/ \E projectId \in Principals : GetProject(projectId)
    \/ \E projectId \in Principals : GetContributors(projectId)
    \/ \E projectId \in Principals, status \in StatusInputs :
            UpdateStatus(projectId, status)
    \/ \E projectId \in Principals, payload \in ProjectPayload :
            UpdateProject(projectId, payload)
    \/ \E projectId \in Principals : CancelProject(projectId)
    \/ Tick

SpecAlloc == Init /\ [][NextAlloc]_vars

\* the loop is left as soon as its condition fails; a fair source of randomness
\* does not avoid the identifiers that are not keys for ever
SpecAllocFair ==
    /\ SpecAlloc
    /\ WF_vars(FinishCreate)
    /\ SF_vars(\E id \in FreshIds(crowdfundingProjects) : Redraw(id))

-----------------------------------------------------------------------------
(* Properties of the canister *)

\* what the claims call a valid payload: nothing empty, nothing zero
NonEmptyPayloads ==
    {payload \in ProjectPayload :
        /\ payload.title # "" /\ payload.description # "" /\ payload.creator # ""
        /\ payload.goalAmount # 0 /\ payload.duration # 0}

NonEmptyContributors ==
    {payload \in Contributor : payload.contributor # "" /\ payload.amount # 0}

IsOk(r) == r.result.tag = "Ok"
IsErr(r, kind) == r.result.tag = "Err" /\ r.result.val = kind

(* C1: for every payload with nothing empty and nothing zero, createProject at
   the current time succeeds; the record it returns has an id that was no key
   of the map, status Funding, raisedAmount 0, no contributors, startTime the
   current time and deadline startTime + duration; afterwards the map holds
   exactly that record under that id. *)
C1_CreateProjectRecord ==
    \A payload \in NonEmptyPayloads : \A id \in FreshIds(crowdfundingProjects) :
        LET r == createProject(crowdfundingProjects, time, payload, id)
            project == r.result.val
        IN /\ IsOk(r)
           /\ project.id \notin DOMAIN crowdfundingProjects
           /\ project.status = Funding
           /\ project.raisedAmount = 0
           /\ project.contributors = <<>>
           /\ project.startTime = time
           /\ project.deadline = time + payload.duration
           /\ DOMAIN r.store = DOMAIN crowdfundingProjects \cup {project.id}
           /\ r.store[project.id] = project

\* a project created at a later time than 0 is in the map, untouched since
C1_Witness ==
    \E id \in DOMAIN crowdfundingProjects :
        /\ time > 0
        /\ crowdfundingProjects[id] = NewProject(time, PayloadB, id)

(* C2: every stored record's id is the key it is stored under; no step removes
   a key; a successful createProject adds exactly one key and leaves every
   record stored before as it was, so no identifier is handed out twice. *)
C2_IdentifiersUnique ==
    /\ [](\A k \in DOMAIN crowdfundingProjects : crowdfundingProjects[k].id = k)
    /\ [][DOMAIN crowdfundingProjects \subseteq DOMAIN crowdfundingProjects']_vars
    /\ [][(\E payload \in NonEmptyPayloads : CreateProject(payload)) =>
            /\ Cardinality(DOMAIN crowdfundingProjects')
                   = Cardinality(DOMAIN crowdfundingProjects) + 1
            /\ \A k \in DOMAIN crowdfundingProjects :
                   crowdfundingProjects'[k] = crowdfundingProjects[k]]_vars

\* two projects created one after the other, the first one funded in between
C2_Witness ==
    /\ DOMAIN crowdfundingProjects = {1, 2}
    /\ crowdfundingProjects[1].id # crowdfundingProjects[2].id
    /\ crowdfundingProjects[1].startTime # crowdfundingProjects[2].startTime
    /\ \E k \in {1, 2} : crowdfundingProjects[k].raisedAmount > 0

(* C3: when contributeToProject succeeds, the stored raisedAmount is the former
   one plus the amount, contributors is the former sequence with the
   contributor appended at the end, and nothing else in the map changed. *)
C3_ContributionApplied ==
    \A projectId \in Principals : \A payload \in Contributor :
        LET r == contributeToProject(crowdfundingProjects, time, projectId, payload)
        IN IsOk(r) =>
            /\ projectId \in DOMAIN crowdfundingProjects
            /\ r.store =
                  [crowdfundingProjects EXCEPT
                      ![projectId].raisedAmount = @ + payload.amount,
                      ![projectId].contributors = Append(@, payload.contributor)]
            /\ r.result.val = r.store[projectId]

\* two contributions were applied to one project, and a third would be too
C3_Witness ==
    \E projectId \in DOMAIN crowdfundingProjects :
        /\ crowdfundingProjects[projectId].contributors = <<"carol", "bob">>
        /\ crowdfundingProjects[projectId].raisedAmount = 3
        /\ IsOk(contributeToProject(crowdfundingProjects, time, projectId,
                                    [contributor |-> "carol", amount |-> 2]))

(* C4: a valid contribution to a stored Funding project at a time >= its
   deadline (the deadline instant included) fails with ProjectExpired and
   still writes status Expired, changing nothing else; getProject then
   returns the record with status Expired and the former raisedAmount. *)
C4_LazyExpiry ==
    \A projectId \in DOMAIN crowdfundingProjects : \A payload \in NonEmptyContributors :
        LET project == crowdfundingProjects[projectId]
            r == contributeToProject(crowdfundingProjects, time, projectId, payload)
        IN (project.status = Funding /\ time >= project.deadline) =>
            /\ IsErr(r, "ProjectExpired")
            /\ r.store = [crowdfundingProjects EXCEPT ![projectId].status = Expired]
            /\ getProject(r.store, projectId).result
                   = Ok([project EXCEPT !.status = Expired])

\* a funded project still stored as Funding at the very instant of its deadline
C4_Witness ==
    \E projectId \in DOMAIN crowdfundingProjects :
        LET project == crowdfundingProjects[projectId]
        IN /\ project.status = Funding
           /\ time = project.deadline
           /\ project.raisedAmount > 0
           /\ IsErr(contributeToProject(crowdfundingProjects, time, projectId,
                                        [contributor |-> "bob", amount |-> 1]),
                    "ProjectExpired")

(* C5: a valid contribution to a stored project whose status is Successful or
   Expired fails with ProjectExpired and leaves the map as it was, at the
   current time and at any later one; a Successful project past its deadline
   is not turned into Expired. *)
C5_TerminalRejects ==
    \A projectId \in DOMAIN crowdfundingProjects : \A payload \in NonEmptyContributors :
        \A now \in time..(MaxTime + 1) :
            LET r == contributeToProject(crowdfundingProjects, now, projectId, payload)
            IN crowdfundingProjects[projectId].status \in {Successful, Expired} =>
                /\ IsErr(r, "ProjectExpired")
                /\ r.store = crowdfundingProjects

\* a Successful project with money raised, its deadline passed
C5_Witness ==
    \E projectId \in DOMAIN crowdfundingProjects :
        LET project == crowdfundingProjects[projectId]
        IN /\ project.status = Successful
           /\ project.raisedAmount > 0
           /\ time > project.deadline
           /\ IsErr(contributeToProject(crowdfundingProjects, time, projectId,
                                        [contributor |-> "bob", amount |-> 1]),
                    "ProjectExpired")

(* C6: in every step, no stored project's raisedAmount decreases, and it
   increases only in a contributeToProject step taken while the stored status
   is Funding and the current time is before the deadline. *)
C6_RaisedOnlyWhileFunding ==
    [][\A projectId \in DOMAIN crowdfundingProjects :
          LET before == crowdfundingProjects[projectId]
              after == crowdfundingProjects'[projectId]
          IN /\ after.raisedAmount >= before.raisedAmount
             /\ after.raisedAmount > before.raisedAmount =>
                   /\ \E payload \in Contributor : ContributeToProject(projectId, payload)
                   /\ before.status = Funding
                   /\ time < before.deadline]_vars

(* C7: for every stored project and every non-empty status string other than
   "Funding", "Successful", "Expired", updateStatus fails with InvalidStatus and
   leaves the map as it was; so every stored status is one of the three. *)
C7_UnrecognisedStatusRejected ==
    /\ \A projectId \in DOMAIN crowdfundingProjects :
          crowdfundingProjects[projectId].status \in {"Funding", "Successful", "Expired"}
    /\ \A projectId \in DOMAIN crowdfundingProjects : \A status \in StatusInputs :
          LET r == updateStatus(crowdfundingProjects, projectId, status)
          IN (status # "" /\ status \notin {"Funding", "Successful", "Expired"}) =>
                /\ IsErr(r, "InvalidStatus")
                /\ r.store = crowdfundingProjects

(* C8: for every stored project and every target among Funding, Successful,
   Expired, updateStatus succeeds whatever the current status and whether or
   not the deadline has passed, stores the target as the status and changes
   no other field and no other record. *)
C8_StatusOverwrite ==
    \A projectId \in DOMAIN crowdfundingProjects :
        \A target \in {"Funding", "Successful", "Expired"} :
            LET r == updateStatus(crowdfundingProjects, projectId, target)
            IN /\ IsOk(r)
               /\ r.store = [crowdfundingProjects EXCEPT ![projectId].status = target]
               /\ r.result.val = r.store[projectId]

\* an Expired project, funded earlier and past its deadline, can be reopened
C8_Witness ==
    \E projectId \in DOMAIN crowdfundingProjects :
        LET project == crowdfundingProjects[projectId]
            r == updateStatus(crowdfundingProjects, projectId, Funding)
        IN /\ project.status = Expired
           /\ project.raisedAmount > 0
           /\ time > project.deadline
           /\ IsOk(r)
           /\ r.store[projectId].status = Funding

(* C9 as stated: no step changes the creator of a stored project. *)
C9_CreatorNeverChanges ==
    [][\A projectId \in DOMAIN crowdfundingProjects :
          crowdfundingProjects'[projectId].creator
              = crowdfundingProjects[projectId].creator]_vars

(* C9 amended: the creator of a stored project changes only in a successful
   updateProject on that project, which stores the payload's creator; no other
   operation changes it. *)
C9_CreatorChangesOnlyByUpdate ==
    [][\A projectId \in DOMAIN crowdfundingProjects :
          LET before == crowdfundingProjects[projectId]
              after == crowdfundingProjects'[projectId]
          IN after.creator # before.creator =>
                \E payload \in NonEmptyPayloads :
                    /\ UpdateProject(projectId, payload)
                    /\ IsOk(updateProject(crowdfundingProjects, time, projectId, payload))
                    /\ after.creator = payload.creator]_vars

\* a funded project of alice's that updateProject would hand to bob
C9_Witness ==
    \E projectId \in DOMAIN crowdfundingProjects :
        LET project == crowdfundingProjects[projectId]
            r == updateProject(crowdfundingProjects, time, projectId, PayloadB)
        IN /\ project.creator = "alice"
           /\ project.raisedAmount > 0
           /\ IsOk(r)
           /\ r.store[projectId].creator = "bob"

(* C10 as stated: a stored status goes from Funding to Expired only in a
   contributeToProject step taken at a time >= the deadline. *)
C10_ExpiredOnlyByContribution ==
    [][\A projectId \in DOMAIN crowdfundingProjects :
          LET before == crowdfundingProjects[projectId]
              after == crowdfundingProjects'[projectId]
          IN (before.status = Funding /\ after.status = Expired) =>
                /\ time >= before.deadline
                /\ \E payload \in Contributor : ContributeToProject(projectId, payload)]_vars

(* C10 amended: a stored status goes from Funding to Expired only in a
   contributeToProject step taken at a time >= the deadline, in an
   updateStatus step with target "Expired", or in a cancelProject step. *)
C10_ExpiredOnlyByThreePaths ==
    [][\A projectId \in DOMAIN crowdfundingProjects :
          LET before == crowdfundingProjects[projectId]
              after == crowdfundingProjects'[projectId]
          IN (before.status = Funding /\ after.status = Expired) =>
                \/ /\ time >= before.deadline
                   /\ \E payload \in Contributor : ContributeToProject(projectId, payload)
                \/ UpdateStatus(projectId, "Expired")
                \/ CancelProject(projectId)]_vars

\* a project cancelled before its deadline, beside one that expired on a
\* contribution attempt
C10_Witness ==
    \E p \in DOMAIN crowdfundingProjects : \E q \in DOMAIN crowdfundingProjects :
        /\ crowdfundingProjects[p].status = Expired
        /\ time < crowdfundingProjects[p].deadline
        /\ crowdfundingProjects[q].status = Funding
        /\ time >= crowdfundingProjects[q].deadline
        /\ crowdfundingProjects[q].raisedAmount > 0
        /\ contributeToProject(crowdfundingProjects, time, q,
                               [contributor |-> "bob", amount |-> 1]).store[q].status
              = Expired

(* C11: for a stored project and a payload with nothing empty or zero,
   updateProject at the current or any later time fails - with InvalidPayload -
   exactly when startTime + duration is before that time, and then leaves the
   map as it was. *)
C11_UpdateRejectsPastDeadline ==
    \A projectId \in DOMAIN crowdfundingProjects : \A payload \in NonEmptyPayloads :
        \A now \in time..(MaxTime + 1) :
            LET project == crowdfundingProjects[projectId]
                r == updateProject(crowdfundingProjects, now, projectId, payload)
            IN IF project.startTime + payload.duration < now
               THEN IsErr(r, "InvalidPayload") /\ r.store = crowdfundingProjects
               ELSE IsOk(r)

\* a funded project two time units old: duration 1 is refused, duration 2 is
\* accepted
C11_Witness ==
    \E projectId \in DOMAIN crowdfundingProjects :
        LET project == crowdfundingProjects[projectId]
        IN /\ project.startTime + 2 = time
           /\ project.raisedAmount > 0
           /\ IsErr(updateProject(crowdfundingProjects, time, projectId, PayloadA),
                    "InvalidPayload")
           /\ IsOk(updateProject(crowdfundingProjects, time, projectId, PayloadB))

(* C12: a successful updateProject stores a record with the id, raisedAmount,
   startTime, contributors and status stored before, the payload's title,
   description, goalAmount and creator, and deadline = startTime + the
   payload's duration; the status is kept even when the old deadline had
   passed; no other record changes. *)
C12_UpdateFrame ==
    \A projectId \in Principals : \A payload \in ProjectPayload :
        LET r == updateProject(crowdfundingProjects, time, projectId, payload)
        IN IsOk(r) =>
            /\ projectId \in DOMAIN crowdfundingProjects
            /\ LET before == crowdfundingProjects[projectId]
                   after == r.store[projectId]
               IN /\ after.id = before.id
                  /\ after.raisedAmount = before.raisedAmount
                  /\ after.startTime = before.startTime
                  /\ after.contributors = before.contributors
                  /\ after.status = before.status
                  /\ after.title = payload.title
                  /\ after.description = payload.description
                  /\ after.goalAmount = payload.goalAmount
                  /\ after.creator = payload.creator
                  /\ after.deadline = before.startTime + payload.duration
                  /\ r.result.val = after
            /\ DOMAIN r.store = DOMAIN crowdfundingProjects
            /\ \A other \in DOMAIN crowdfundingProjects \ {projectId} :
                  r.store[other] = crowdfundingProjects[other]

\* an Expired project, funded earlier, its deadline passed, that an update
\* with another payload keeps Expired
C12_Witness ==
    \E projectId \in DOMAIN crowdfundingProjects :
        LET project == crowdfundingProjects[projectId]
            r == updateProject(crowdfundingProjects, time, projectId, PayloadB)
        IN /\ project.status = Expired
           /\ project.title = "T1"
           /\ project.raisedAmount > 0
           /\ time >= project.deadline
           /\ IsOk(r)
           /\ r.store[projectId].status = Expired
           /\ r.store[projectId].title = "T2"

(* C13: in every reachable state every stored project has
   startTime <= deadline. *)
C13_StartBeforeDeadline ==
    \A projectId \in DOMAIN crowdfundingProjects :
        crowdfundingProjects[projectId].startTime
            <= crowdfundingProjects[projectId].deadline

\* a project created after time 0 and funded since, its deadline ahead
C13_Witness ==
    \E projectId \in DOMAIN crowdfundingProjects :
        LET project == crowdfundingProjects[projectId]
        IN /\ project.startTime > 0
           /\ project.raisedAmount > 0
           /\ project.creator = "alice"
           /\ project.deadline = project.startTime + 1
           /\ project.contributors = <<"carol">>

\* the elements of a sequence
Range(seq) == {seq[i] : i \in 1..Len(seq)}

(* C14: getProject, getContributors and getProjects leave the map as it was
   and look at the stored status only: getProject / getContributors give
   NotFound for an id not in the map and otherwise the stored record / its
   contributors; getProjects(filter) gives, once each, exactly the stored
   records whose stored status is the filter (all of them for the empty
   filter) - a Funding record past its deadline included as Funding. *)
C14_ReadsArePure ==
    /\ [](\A projectId \in Principals :
          LET one == getProject(crowdfundingProjects, projectId)
              who == getContributors(crowdfundingProjects, projectId)
          IN /\ one.store = crowdfundingProjects
             /\ who.store = crowdfundingProjects
             /\ IF projectId \in DOMAIN crowdfundingProjects
                THEN /\ IsOk(one)
                     /\ one.result.val = crowdfundingProjects[projectId]
                     /\ IsOk(who)
                     /\ who.result.val = crowdfundingProjects[projectId].contributors
                ELSE IsErr(one, "NotFound") /\ IsErr(who, "NotFound"))
    /\ [](\A filter \in StatusInputs :
          LET all == getProjects(crowdfundingProjects, filter)
              wanted == {k \in DOMAIN crowdfundingProjects :
                            filter = "" \/ crowdfundingProjects[k].status = filter}
          IN /\ all.store = crowdfundingProjects
             /\ IsOk(all)
             /\ Range(all.result.val) = {crowdfundingProjects[k] : k \in wanted}
             /\ Len(all.result.val) = Cardinality(wanted))
    /\ [][(\/ \E filter \in StatusInputs : GetProjects(filter)
           \/ \E projectId \in Principals : GetProject(projectId)
           \/ \E projectId \in Principals : GetContributors(projectId))
             => UNCHANGED vars]_vars

\* a Funding project past its deadline beside an Expired one: only the second
\* is listed as Expired
C14_Witness ==
    \E p \in DOMAIN crowdfundingProjects : \E q \in DOMAIN crowdfundingProjects :
        /\ crowdfundingProjects[p].status = Funding
        /\ time > crowdfundingProjects[p].deadline
        /\ crowdfundingProjects[q].status = Expired
        /\ getProjects(crowdfundingProjects, Expired).result.val
              = <<crowdfundingProjects[q]>>
        /\ getProject(crowdfundingProjects, p).result.val.status = Funding

(* C15: for every identifier, stored or not, cancelProject gives the same kind
   of result and the same map as updateStatus with "Expired": NotFound and the
   map untouched for an id not in the map, otherwise Ok with that record's
   status Expired whatever it was, nothing else changed. *)
C15_CancelIsUpdateStatusExpired ==
    \A projectId \in Principals :
        LET c == cancelProject(crowdfundingProjects, projectId)
            u == updateStatus(crowdfundingProjects, projectId, "Expired")
        IN /\ c.result.tag = u.result.tag
           /\ c.store = u.store
           /\ IF projectId \in DOMAIN crowdfundingProjects
              THEN /\ IsOk(c)
                   /\ c.store = [crowdfundingProjects EXCEPT ![projectId].status = Expired]
                   /\ c.result.val = c.store[projectId]
                   /\ u.result.val = c.result.val
              ELSE /\ IsErr(c, "NotFound")
                   /\ IsErr(u, "NotFound")
                   /\ c.store = crowdfundingProjects

\* one project Successful with money raised, the other identifier unused
C15_Witness ==
    \E p \in DOMAIN crowdfundingProjects : \E q \in Principals :
        /\ q \notin DOMAIN crowdfundingProjects
        /\ crowdfundingProjects[p].status = Successful
        /\ crowdfundingProjects[p].raisedAmount > 0
        /\ cancelProject(crowdfundingProjects, p).store[p].status = Expired
        /\ IsErr(cancelProject(crowdfundingProjects, q), "NotFound")

(* C16: a call that returns a failure leaves the map as it was, except a
   contributeToProject that fails with ProjectExpired on a Funding project
   whose deadline has come. *)
C16_FailuresWriteNothing ==
    /\ \A payload \in ProjectPayload : \A id \in Principals :
          LET r == createProject(crowdfundingProjects, time, payload, id)
          IN ~IsOk(r) => r.store = crowdfundingProjects
    /\ \A projectId \in Principals : \A payload \in ProjectPayload :
          LET r == updateProject(crowdfundingProjects, time, projectId, payload)
          IN ~IsOk(r) => r.store = crowdfundingProjects
    /\ \A projectId \in Principals : \A status \in StatusInputs :
          LET r == updateStatus(crowdfundingProjects, projectId, status)
          IN ~IsOk(r) => r.store = crowdfundingProjects
    /\ \A projectId \in Principals :
          LET r == cancelProject(crowdfundingProjects, projectId)
          IN ~IsOk(r) => r.store = crowdfundingProjects
    /\ \A projectId \in Principals : \A payload \in Contributor :
          LET r == contributeToProject(crowdfundingProjects, time, projectId, payload)
              lazyExpiry ==
                  /\ IsErr(r, "ProjectExpired")
                  /\ projectId \in DOMAIN crowdfundingProjects
                  /\ crowdfundingProjects[projectId].status = Funding
                  /\ time >= crowdfundingProjects[projectId].deadline
          IN (~IsOk(r) /\ ~lazyExpiry) => r.store = crowdfundingProjects

(* C17: a project still stored as Funding although its deadline has come is
   open again after a successful updateProject: a valid contribution at any
   time from now on that is before the new deadline succeeds and raises
   raisedAmount.  A project stored as Expired stays Expired through
   updateProject, and valid contributions keep failing with ProjectExpired
   until updateStatus stores another status. *)
C17_UpdateReopensUntouchedProject ==
    \A projectId \in DOMAIN crowdfundingProjects : \A payload \in NonEmptyPayloads :
        LET project == crowdfundingProjects[projectId]
            u == updateProject(crowdfundingProjects, time, projectId, payload)
        IN IsOk(u) =>
            \A now \in time..(MaxTime + 2) : \A c \in NonEmptyContributors :
                LET r == contributeToProject(u.store, now, projectId, c)
                    s == updateStatus(u.store, projectId, Funding)
                IN /\ (project.status = Funding /\ time >= project.deadline
                          /\ now < project.startTime + payload.duration) =>
                        /\ IsOk(r)
                        /\ r.store[projectId].raisedAmount
                              = project.raisedAmount + c.amount
                        /\ r.store[projectId].raisedAmount > project.raisedAmount
                   /\ project.status = Expired =>
                        /\ u.store[projectId].status = Expired
                        /\ IsErr(r, "ProjectExpired")
                        /\ r.store = u.store
                        /\ now < project.startTime + payload.duration =>
                              IsOk(contributeToProject(s.store, now, projectId, c))

\* a funded Funding project at its deadline that PayloadB extends, beside an
\* Expired one past its deadline that PayloadB extends as well
C17_Witness ==
    \E p \in DOMAIN crowdfundingProjects : \E q \in DOMAIN crowdfundingProjects :
        LET up == updateProject(crowdfundingProjects, time, p, PayloadB)
            uq == updateProject(crowdfundingProjects, time, q, PayloadB)
        IN /\ crowdfundingProjects[p].status = Funding
           /\ crowdfundingProjects[p].raisedAmount > 0
           /\ time >= crowdfundingProjects[p].deadline
           /\ IsOk(up)
           /\ time < up.store[p].deadline
           /\ crowdfundingProjects[q].status = Expired
           /\ time >= crowdfundingProjects[q].deadline
           /\ IsOk(uq)
           /\ time < uq.store[q].deadline

(* C18: a project is created with no contributors and raisedAmount 0; a
   successful contributeToProject adds one contributor and the call's amount;
   a step changes contributors or raisedAmount of a stored project only if it
   is such a call on that project.  So the length of contributors is the
   number of successful contributions and raisedAmount is the sum of their
   amounts; hence raisedAmount >= the length, and raisedAmount = 0 exactly
   when there are no contributors. *)
C18_ContributionsInLockStep ==
    /\ [](\A projectId \in DOMAIN crowdfundingProjects :
            LET project == crowdfundingProjects[projectId]
            IN /\ project.raisedAmount >= Len(project.contributors)
               /\ project.raisedAmount = 0 <=> project.contributors = <<>>
               /\ \A c \in Contributor :
                     LET r == contributeToProject(crowdfundingProjects, time,
                                                  projectId, c)
                     IN IsOk(r) =>
                          /\ Len(r.store[projectId].contributors)
                                = Len(project.contributors) + 1
                          /\ r.store[projectId].raisedAmount
                                = project.raisedAmount + c.amount)
    /\ [][\A projectId \in DOMAIN crowdfundingProjects' :
            IF projectId \notin DOMAIN crowdfundingProjects
            THEN /\ crowdfundingProjects'[projectId].contributors = <<>>
                 /\ crowdfundingProjects'[projectId].raisedAmount = 0
            ELSE LET before == crowdfundingProjects[projectId]
                     after == crowdfundingProjects'[projectId]
                 IN \/ /\ after.contributors = before.contributors
                       /\ after.raisedAmount = before.raisedAmount
                    \/ \E c \in Contributor :
                          /\ ContributeToProject(projectId, c)
                          /\ IsOk(contributeToProject(crowdfundingProjects, time,
                                                      projectId, c))]_vars

\* the same contributor accepted twice
C18_Witness ==
    \E projectId \in DOMAIN crowdfundingProjects :
        /\ crowdfundingProjects[projectId].contributors = <<"bob", "bob">>
        /\ crowdfundingProjects[projectId].raisedAmount = 2

(* C19: right after updateProject succeeds at the current time on a Funding
   project, the stored deadline is after the current time and a valid
   contribution at the current time succeeds. *)
C19_UpdatedProjectIsOpen ==
    \A projectId \in DOMAIN crowdfundingProjects : \A payload \in NonEmptyPayloads :
        LET u == updateProject(crowdfundingProjects, time, projectId, payload)
        IN (crowdfundingProjects[projectId].status = Funding /\ IsOk(u)) =>
            /\ u.store[projectId].deadline > time
            /\ \A c \in NonEmptyContributors :
                  IsOk(contributeToProject(u.store, time, projectId, c))

(* C20: the identifier loop of createProject, followed draw by draw: with a
   fair source of randomness it is left whenever some identifier is not a key
   of the map; it is left only with a candidate that is no key, which then
   becomes the new project's key; the map is not written while the loop
   runs; and with every identifier in use the loop is never left. *)
C20_AllocationLoop ==
    /\ (pending # <<>> /\ FreshIds(crowdfundingProjects) # {}) ~> (pending = <<>>)
    /\ [][(pending # <<>> /\ pending' = <<>>) =>
            /\ pending[1].id \notin DOMAIN crowdfundingProjects
            /\ DOMAIN crowdfundingProjects'
                  = DOMAIN crowdfundingProjects \cup {pending[1].id}
            /\ crowdfundingProjects'[pending[1].id].id = pending[1].id]_vars
    /\ [][pending' # <<>> => crowdfundingProjects' = crowdfundingProjects]_vars
    /\ [][(pending # <<>> /\ FreshIds(crowdfundingProjects) = {}) =>
            pending' # <<>>]_vars

\* the loop holds a candidate that is taken while the other identifier is free
C20_Witness ==
    /\ pending # <<>>
    /\ pending[1].id \in DOMAIN crowdfundingProjects
    /\ FreshIds(crowdfundingProjects) # {}

====
